---- MODULE Spec2Model ----
(***************************************************************************)
(* CheckRunner of packages/cli/src/services/check-trigger-runner.ts:       *)
(* run() connects to the broker, attaches the message handler, subscribes, *)
(* triggers the test session, arms one timer per check, and aggregates the *)
(* CHECK_FINISHED events into RUN_FINISHED.                                *)
(*                                                                         *)
(* One action is one task of the Node.js event loop.  A continuation that  *)
(* runs as a microtask (the resumption of a handler that awaited           *)
(* this.checks, the resumption of run() after allChecksFinishedPromise)    *)
(* is an action of its own that no macrotask (an inbound message, a timer, *)
(* an I/O completion) can overtake: see MicrotaskPending.                  *)
(***************************************************************************)
EXTENDS Integers, Sequences, FiniteSets, TLC

\* Bounds of the model.
MaxChecks == 2
MaxMsgs == 2

\* check.id of the checks the backend may select.
Checks == 1 .. MaxChecks
\* checkRunIds the backend may assign (r1 = 11, r2 = 12, ...).
RunIds == {10 + i : i \in 1 .. MaxChecks}
\* A run id no trigger response contains.
UnknownRunId == 10
\* topicComponents[4] of a topic with fewer than five segments (undefined).
UndefinedRunId == 0

NoCheck == 0

VARIABLES
  pc,                  \* position of run()
  socket,              \* "none", "open", "ending", "closed"
  handlerAttached,     \* socketClient.on('message', ...) was called
  subscription,        \* "none", "pending", "acked", "failed"
  triggerSent,         \* testSessions.trigger was called
  checksP,             \* this.checks: "undefined", "pending", "resolved", "rejected"
  checks,              \* response.data.checks (list of check ids)
  checkRunIds,         \* response.data.checkRunIds (check id -> run id)
  verbose,             \* this.verbose (commands/trigger.ts passes false)
  timeouts,            \* this.timeouts: run id -> timer handle
  timers,              \* timer handles that are scheduled, neither cleared nor fired
  numChecks,           \* allChecksFinished: numChecks (-1: listener not registered)
  finishedCheckCount,  \* allChecksFinished: finishedCheckCount
  allFinished,         \* allChecksFinishedPromise is resolved
  waiting,             \* handlers suspended on `await this.checks`, in arrival order
  fetching,            \* run-end handlers suspended on an asset fetch
  events,              \* everything emitted so far, in order
  endCalls,            \* number of socketClient.end() calls
  outcome,             \* "running", "returned", "threw"
  handlerErrors,       \* number of message handlers that ended with a rejection
  terminal,            \* run ids with an accepted run-end/error message or a fired timer
  msgCount             \* number of inbound messages so far

vars == << pc, socket, handlerAttached, subscription, triggerSent, checksP, checks,
           checkRunIds, verbose, timeouts, timers, numChecks, finishedCheckCount,
           allFinished, waiting, fetching, events, endCalls, outcome, handlerErrors,
           terminal, msgCount >>

----------------------------------------------------------------------------
\* Data

\* result of a run-end payload: hasFailures, which asset paths it carries, and
\* which assets the handler has attached to it.
Results == [hasFailures : BOOLEAN, logPath : BOOLEAN, checkRunDataPath : BOOLEAN,
            logs : {FALSE}, checkRunData : {FALSE}]
NoResult == [hasFailures |-> FALSE, logPath |-> FALSE, checkRunDataPath |-> FALSE,
             logs |-> FALSE, checkRunData |-> FALSE]
\* The run-end payloads of Spec: a passing result without assets and a failing
\* result with a log path.
CoreResults == {r \in Results : r.hasFailures = r.logPath /\ ~r.checkRunDataPath}

\* The payload of an error message, as far as the model tells payloads apart.
ErrorPayloads == {"message"}
NoError == "none"

\* An inbound message: run id and subtopic from the topic; result is the payload's
\* result of a run-end message, error the payload of an error message.
\* The messages of Spec: every known subtopic and one unknown subtopic on every
\* run id of the session, and a run-end message on a run id the session does not have.
Msgs == [runId : RunIds, kind : {"run-start", "other"}, result : {NoResult}, error : {NoError}]
          \cup [runId : RunIds, kind : {"error"}, result : {NoResult}, error : ErrorPayloads]
          \cup [runId : RunIds, kind : {"run-end"}, result : CoreResults, error : {NoError}]
          \cup [runId : {UnknownRunId}, kind : {"run-end"}, result : {NoResult},
                 error : {NoError}]

RECURSIVE SetToSeq(_)
SetToSeq(S) ==
  IF S = {} THEN << >>
  ELSE LET x == CHOOSE y \in S : \A z \in S : y <= z
       IN << x >> \o SetToSeq(S \ {x})

\* The trigger responses: the selected checks and a run id for each of them.
Responses ==
  UNION { [checks : {SetToSeq(S)}, checkRunIds : [S -> RunIds]] : S \in SUBSET Checks }

Range(f) == {f[x] : x \in DOMAIN f}
Injective(f) == \A a, b \in DOMAIN f : f[a] = f[b] => a = b

\* objectFlip: Object.keys(obj).forEach(key => ret[obj[key]] = key).
\* Object.keys lists integer-like keys in ascending order; a later key overwrites.
RECURSIVE FlipKeys(_, _, _)
FlipKeys(obj, keys, ret) ==
  IF keys = << >> THEN ret
  ELSE LET key == Head(keys)
           set == [r \in DOMAIN ret \cup {obj[key]} |->
                     IF r = obj[key] THEN key ELSE ret[r]]
       IN FlipKeys(obj, Tail(keys), set)

objectFlip(obj) == FlipKeys(obj, SetToSeq(DOMAIN obj), << >>)

\* A faulty variant of find: the first check of the list, whatever its id.
findFirst(list, checkId) ==
  IF list = << >> THEN NoCheck ELSE Head(list)

\* checks.find(check => check.id === checkId): the first one, or undefined.
RECURSIVE find(_, _)
find(list, checkId) ==
  IF list = << >> THEN NoCheck
  ELSE IF Head(list) = checkId THEN checkId
  ELSE find(Tail(list), checkId)

\* const checkId = checkRunIds[checkRunId]; const check = checks.find(...)
CheckOf(checkRunId) ==
  LET flipped == objectFlip(checkRunIds)
  IN IF checkRunId \in DOMAIN flipped THEN find(checks, flipped[checkRunId]) ELSE NoCheck

Event(type, check, runId, arg) ==
  [type |-> type, check |-> check, runId |-> runId, arg |-> arg]

IsFinished(e) == e.type = "CHECK_FINISHED"

\* A faulty variant of Emit: the listener resolves on the first CHECK_FINISHED
\* (finishedCheckCount is not compared with numChecks).
EmitResolvesOnFirst(es) ==
  LET n == Cardinality({i \in 1 .. Len(es) : IsFinished(es[i])})
      registered == numChecks > 0
  IN /\ events' = events \o es
     /\ finishedCheckCount' = IF registered THEN finishedCheckCount + n ELSE finishedCheckCount
     /\ allFinished' = (allFinished \/ (registered /\ n > 0))

\* this.emit(...) of a list of events: append them, and run the CHECK_FINISHED
\* listener of allChecksFinished for each CHECK_FINISHED among them.
Emit(es) ==
  LET n == Cardinality({i \in 1 .. Len(es) : IsFinished(es[i])})
      registered == numChecks > 0
  IN /\ events' = events \o es
     /\ finishedCheckCount' = IF registered THEN finishedCheckCount + n ELSE finishedCheckCount
     /\ allFinished' = (allFinished \/
                         (registered /\ finishedCheckCount < numChecks
                                     /\ finishedCheckCount + n >= numChecks))

\* A faulty variant of Remove: this.timeouts.clear() instead of delete(k).
RemoveAll(f, k) == << >>

\* this.timeouts.delete(k).
Remove(f, k) == [x \in DOMAIN f \ {k} |-> f[x]]

\* An event-loop task may start only when no microtask is queued.
MicrotaskPending ==
  \/ checksP \in {"resolved", "rejected"} /\ waiting # << >>
  \/ pc = "awaitAll" /\ allFinished

----------------------------------------------------------------------------
\* The state after new CheckRunner(..., timeout, verbose) (lines 58-74).
Constructed(verboseArg) ==
  /\ pc = "connect"
  /\ socket = "none"
  /\ handlerAttached = FALSE
  /\ subscription = "none"
  /\ triggerSent = FALSE
  /\ checksP = "undefined"
  /\ checks = << >>
  /\ checkRunIds = << >>
  /\ verbose = verboseArg
  /\ timeouts = << >>
  /\ timers = {}
  /\ numChecks = -1
  /\ finishedCheckCount = 0
  /\ allFinished = FALSE
  /\ waiting = << >>
  /\ fetching = {}
  /\ events = << >>
  /\ endCalls = 0
  /\ outcome = "running"
  /\ handlerErrors = 0
  /\ terminal = {}
  /\ msgCount = 0

\* commands/trigger.ts constructs the runner with verbose = false.
Init == Constructed(FALSE)

----------------------------------------------------------------------------
\* run()

\* Line 77 resolves; line 80 calls configureResultListener, which attaches the
\* message handler (line 121) and sends the subscribe request (line 156).
Connect ==
  /\ pc = "connect"
  /\ socket' = "open"
  /\ handlerAttached' = TRUE
  /\ subscription' = "pending"
  /\ pc' = "subscribing"
  /\ UNCHANGED << triggerSent, checksP, checks, checkRunIds, verbose, timeouts, timers,
                  numChecks, finishedCheckCount, allFinished, waiting, fetching, events,
                  endCalls, outcome, handlerErrors, terminal, msgCount >>

\* SocketClient.connect() rejects: run() rejects, no connection was opened.
ConnectFail ==
  /\ pc = "connect"
  /\ pc' = "done"
  /\ outcome' = "threw"
  /\ UNCHANGED << socket, handlerAttached, subscription, triggerSent, checksP, checks,
                  checkRunIds, verbose, timeouts, timers, numChecks, finishedCheckCount,
                  allFinished, waiting, fetching, events, endCalls, handlerErrors,
                  terminal, msgCount >>

\* The subscribe request is acknowledged: `await this.configureResultListener` returns.
SubscribeAck ==
  /\ pc = "subscribing"
  /\ subscription' = "acked"
  /\ pc' = "schedule"
  /\ UNCHANGED << socket, handlerAttached, triggerSent, checksP, checks, checkRunIds,
                  verbose, timeouts, timers, numChecks, finishedCheckCount, allFinished,
                  waiting, fetching, events, endCalls, outcome, handlerErrors, terminal,
                  msgCount >>

\* The subscribe request rejects. Line 80 is outside the try block: the exception
\* leaves run() and the finally block with socketClient.end() is never entered.
SubscribeFail ==
  /\ pc = "subscribing"
  /\ subscription' = "failed"
  /\ pc' = "done"
  /\ outcome' = "threw"
  /\ UNCHANGED << socket, handlerAttached, triggerSent, checksP, checks, checkRunIds,
                  verbose, timeouts, timers, numChecks, finishedCheckCount, allFinished,
                  waiting, fetching, events, endCalls, handlerErrors, terminal, msgCount >>

\* A faulty variant of ScheduleAllChecks: run() does not await configureResultListener.
ScheduleAllChecksEarly ==
  /\ pc \in {"subscribing", "schedule"}
  /\ triggerSent' = TRUE
  /\ checksP' = "pending"
  /\ pc' = "awaitChecks"
  /\ UNCHANGED << socket, handlerAttached, subscription, checks, checkRunIds, verbose,
                  timeouts, timers, numChecks, finishedCheckCount, allFinished, waiting,
                  fetching, events, endCalls, outcome, handlerErrors, terminal, msgCount >>

\* Lines 82-83 and 94: this.checks = this.scheduleAllChecks(...), which sends the
\* trigger request and suspends; run() suspends on this.checks.
ScheduleAllChecks ==
  /\ pc = "schedule"
  /\ triggerSent' = TRUE
  /\ checksP' = "pending"
  /\ pc' = "awaitChecks"
  /\ UNCHANGED << socket, handlerAttached, subscription, checks, checkRunIds, verbose,
                  timeouts, timers, numChecks, finishedCheckCount, allFinished, waiting,
                  fetching, events, endCalls, outcome, handlerErrors, terminal, msgCount >>

\* A timer handle of line 104: the closure keeps check and checkRunId.
Timer(check, checkRunId) == [check |-> check, checkRunId |-> checkRunId]

\* A faulty variant of ArmTimers: the loop stops before the last check.
RECURSIVE ArmTimersButLast(_, _, _)
ArmTimersButLast(list, ids, table) ==
  IF Len(list) <= 1 THEN table
  ELSE LET check == Head(list)
           checkRunId == ids[check]
           set == [r \in DOMAIN table \cup {checkRunId} |->
                     IF r = checkRunId THEN Timer(check, checkRunId) ELSE table[r]]
       IN ArmTimersButLast(Tail(list), ids, set)

\* The loop of lines 102-109: this.timeouts.set(checkRunIds[check.id], setTimeout(...)).
RECURSIVE ArmTimers(_, _, _)
ArmTimers(list, ids, table) ==
  IF list = << >> THEN table
  ELSE LET check == Head(list)
           checkRunId == ids[check]
           set == [r \in DOMAIN table \cup {checkRunId} |->
                     IF r = checkRunId THEN Timer(check, checkRunId) ELSE table[r]]
       IN ArmTimers(Tail(list), ids, set)

\* A faulty variant of allChecksFinished: no shortcut for numChecks = 0.
allChecksFinishedNoShortcut(n) == FALSE

\* allChecksFinished (lines 159-163): the promise it returns is resolved at once
\* when numChecks is 0; otherwise the CHECK_FINISHED listener resolves it (Emit).
allChecksFinished(n) == n = 0

\* Lines 100-117, when the trigger request resolved: register the CHECK_FINISHED
\* counter, arm the timers, emit RUN_STARTED, resolve this.checks; run() goes on to
\* await allChecksFinishedPromise.
TriggerResponse(response) ==
  /\ pc = "awaitChecks"
  /\ checksP = "pending"
  /\ ~MicrotaskPending
  /\ checks' = response.checks
  /\ checkRunIds' = response.checkRunIds
  /\ numChecks' = Len(response.checks)
  /\ allFinished' = allChecksFinished(Len(response.checks))
  /\ timeouts' = ArmTimers(response.checks, response.checkRunIds, << >>)
  /\ timers' = {Timer(check, response.checkRunIds[check]) : check \in Range(response.checks)}
  /\ events' = Append(events, Event("RUN_STARTED", NoCheck, UndefinedRunId, response.checks))
  /\ checksP' = "resolved"
  /\ pc' = "awaitAll"
  /\ UNCHANGED << socket, handlerAttached, subscription, triggerSent, verbose,
                  finishedCheckCount, waiting, fetching, endCalls, outcome, handlerErrors,
                  terminal, msgCount >>

\* A faulty variant of TriggerReject: RUN_FINISHED is emitted after the try block
\* instead of inside it.
TriggerRejectThenFinished ==
  /\ pc = "awaitChecks"
  /\ checksP = "pending"
  /\ ~MicrotaskPending
  /\ checksP' = "rejected"
  /\ events' = events \o << Event("ERROR", NoCheck, UndefinedRunId, "err"),
                            Event("RUN_FINISHED", NoCheck, UndefinedRunId, "none") >>
  /\ endCalls' = endCalls + 1
  /\ socket' = "ending"
  /\ pc' = "ending"
  /\ UNCHANGED << handlerAttached, subscription, triggerSent, checks, checkRunIds, verbose,
                  timeouts, timers, numChecks, finishedCheckCount, allFinished, waiting,
                  fetching, outcome, handlerErrors, terminal, msgCount >>

\* The trigger request rejects: this.checks rejects, run() catches (line 87: emit
\* ERROR) and enters the finally block (line 89: socketClient.end()).
TriggerReject ==
  /\ pc = "awaitChecks"
  /\ checksP = "pending"
  /\ ~MicrotaskPending
  /\ checksP' = "rejected"
  /\ events' = Append(events, Event("ERROR", NoCheck, UndefinedRunId, "err"))
  /\ endCalls' = endCalls + 1
  /\ socket' = "ending"
  /\ pc' = "ending"
  /\ UNCHANGED << handlerAttached, subscription, triggerSent, checks, checkRunIds, verbose,
                  timeouts, timers, numChecks, finishedCheckCount, allFinished, waiting,
                  fetching, outcome, handlerErrors, terminal, msgCount >>

\* A faulty variant of RunFinished: run() does not await allChecksFinishedPromise.
RunFinishedWithoutAwait ==
  /\ pc = "awaitAll"
  /\ events' = Append(events, Event("RUN_FINISHED", NoCheck, UndefinedRunId, "none"))
  /\ endCalls' = endCalls + 1
  /\ socket' = "ending"
  /\ pc' = "ending"
  /\ UNCHANGED << handlerAttached, subscription, triggerSent, checksP, checks, checkRunIds,
                  verbose, timeouts, timers, numChecks, finishedCheckCount, allFinished,
                  waiting, fetching, outcome, handlerErrors, terminal, msgCount >>

\* Lines 84-85 and 89: allChecksFinishedPromise is resolved, run() emits RUN_FINISHED
\* and enters the finally block.
RunFinished ==
  /\ pc = "awaitAll"
  /\ allFinished
  /\ events' = Append(events, Event("RUN_FINISHED", NoCheck, UndefinedRunId, "none"))
  /\ endCalls' = endCalls + 1
  /\ socket' = "ending"
  /\ pc' = "ending"
  /\ UNCHANGED << handlerAttached, subscription, triggerSent, checksP, checks, checkRunIds,
                  verbose, timeouts, timers, numChecks, finishedCheckCount, allFinished,
                  waiting, fetching, outcome, handlerErrors, terminal, msgCount >>

\* socketClient.end() resolves: run() returns.
EndOk ==
  /\ pc = "ending"
  /\ ~MicrotaskPending
  /\ socket' = "closed"
  /\ pc' = "done"
  /\ outcome' = "returned"
  /\ UNCHANGED << handlerAttached, subscription, triggerSent, checksP, checks, checkRunIds,
                  verbose, timeouts, timers, numChecks, finishedCheckCount, allFinished,
                  waiting, fetching, events, endCalls, handlerErrors, terminal, msgCount >>

\* socketClient.end() rejects: the finally block has no catch, run() rejects with
\* the disconnect error.
EndFail ==
  /\ pc = "ending"
  /\ ~MicrotaskPending
  /\ socket' = "endFailed"
  /\ pc' = "done"
  /\ outcome' = "threw"
  /\ UNCHANGED << handlerAttached, subscription, triggerSent, checksP, checks, checkRunIds,
                  verbose, timeouts, timers, numChecks, finishedCheckCount, allFinished,
                  waiting, fetching, events, endCalls, handlerErrors, terminal, msgCount >>


----------------------------------------------------------------------------
\* The message handler, the timers and the asset fetches

\* Line 121-128: a message arrives; its handler parses topic and payload and
\* suspends on `await this.checks` (also when this.checks is already settled).
\* The topic pattern holds the fresh checkRunSuiteId of line 78, so the broker has
\* messages for it only once the trigger request was sent; messages can still
\* arrive while socketClient.end() is in progress or after it failed.
Receive(m) ==
  /\ handlerAttached
  /\ subscription = "acked"
  /\ triggerSent
  /\ socket \in {"open", "ending", "endFailed"}
  /\ ~MicrotaskPending
  /\ msgCount < MaxMsgs
  /\ waiting' = Append(waiting, m)
  /\ msgCount' = msgCount + 1
  /\ UNCHANGED << pc, socket, handlerAttached, subscription, triggerSent, checksP, checks,
                  checkRunIds, verbose, timeouts, timers, numChecks, finishedCheckCount,
                  allFinished, fetching, events, endCalls, outcome, handlerErrors,
                  terminal >>

\* A faulty variant of disableTimeout: the timer is cleared, the entry is kept.
disableTimeoutKeepsEntry(checkRunId) ==
  /\ timers' = IF checkRunId \in DOMAIN timeouts
                 THEN timers \ {timeouts[checkRunId]} ELSE timers
  /\ timeouts' = timeouts

\* A faulty variant of disableTimeout: the entry is deleted, the timer is not cleared.
disableTimeoutKeepsTimer(checkRunId) ==
  /\ timers' = timers
  /\ timeouts' = Remove(timeouts, checkRunId)

\* disableTimeout (lines 172-176): clearTimeout(this.timeouts.get(id)), then delete.
disableTimeout(checkRunId) ==
  /\ timers' = IF checkRunId \in DOMAIN timeouts
                 THEN timers \ {timeouts[checkRunId]} ELSE timers
  /\ timeouts' = Remove(timeouts, checkRunId)

\* A faulty variant of NeedLogs: logs are fetched only in verbose mode.
NeedLogsOnlyVerbose(result) == result.logPath /\ verbose

\* Lines 142 and 145: which assets the handler fetches for a result.
NeedLogs(result) == result.logPath /\ (verbose \/ result.hasFailures)
NeedData(result) == result.checkRunDataPath /\ (verbose \/ result.hasFailures)

\* A faulty variant of Successful: CHECK_FINISHED is emitted before the outcome.
FinishedThenSuccessful(check, checkRunId, result) ==
  << Event("CHECK_FINISHED", check, checkRunId, "none"),
     Event("CHECK_SUCCESSFUL", check, checkRunId, result) >>

\* Lines 148-149.
Successful(check, checkRunId, result) ==
  << Event("CHECK_SUCCESSFUL", check, checkRunId, result),
     Event("CHECK_FINISHED", check, checkRunId, "none") >>

\* A faulty variant of InProgress: the event is emitted twice.
InProgressTwice(check, checkRunId) ==
  << Event("CHECK_INPROGRESS", check, checkRunId, "none"),
     Event("CHECK_INPROGRESS", check, checkRunId, "none") >>

\* Line 137.
InProgress(check, checkRunId) ==
  << Event("CHECK_INPROGRESS", check, checkRunId, "none") >>

\* A faulty variant of Failed: the payload of the message is not passed on.
FailedWithoutPayload(check, checkRunId, message) ==
  << Event("CHECK_FAILED", check, checkRunId, NoError),
     Event("CHECK_FINISHED", check, checkRunId, "none") >>

\* Lines 152-153.
Failed(check, checkRunId, message) ==
  << Event("CHECK_FAILED", check, checkRunId, message),
     Event("CHECK_FINISHED", check, checkRunId, "none") >>

\* A handler suspended on an asset fetch (line 143 or line 146).
Fetch(checkRunId, check, result, stage) ==
  [runId |-> checkRunId, check |-> check, result |-> result, stage |-> stage]

\* Lines 129-154 for a message whose handler got the resolved this.checks.
Process(m) ==
  LET checkRunId == m.runId
      check == CheckOf(checkRunId)
  IN IF checkRunId \notin DOMAIN timeouts
       THEN UNCHANGED << timeouts, timers, fetching, events, finishedCheckCount,
                         allFinished, terminal >>
     ELSE IF m.kind = "run-start"
       THEN /\ Emit(InProgress(check, checkRunId))
            /\ UNCHANGED << timeouts, timers, fetching, terminal >>
     ELSE IF m.kind = "run-end"
       THEN /\ disableTimeout(checkRunId)
            /\ terminal' = terminal \cup {checkRunId}
            /\ IF NeedLogs(m.result)
                 THEN /\ fetching' = fetching \cup {Fetch(checkRunId, check, m.result, "logs")}
                      /\ UNCHANGED << events, finishedCheckCount, allFinished >>
               ELSE IF NeedData(m.result)
                 THEN /\ fetching' = fetching \cup {Fetch(checkRunId, check, m.result, "data")}
                      /\ UNCHANGED << events, finishedCheckCount, allFinished >>
               ELSE /\ Emit(Successful(check, checkRunId, m.result))
                    /\ UNCHANGED fetching
     ELSE IF m.kind = "error"
       THEN /\ disableTimeout(checkRunId)
            /\ terminal' = terminal \cup {checkRunId}
            /\ Emit(Failed(check, checkRunId, m.error))
            /\ UNCHANGED fetching
     ELSE UNCHANGED << timeouts, timers, fetching, events, finishedCheckCount,
                       allFinished, terminal >>

\* A faulty variant of Handle: the handler does not await this.checks; it reads
\* the correlation data and the timer table as they are when the message arrives.
HandleWithoutAwait ==
  /\ waiting # << >>
  /\ waiting' = Tail(waiting)
  /\ IF checksP # "rejected"
       THEN /\ Process(Head(waiting))
            /\ UNCHANGED handlerErrors
       ELSE /\ handlerErrors' = handlerErrors + 1
            /\ UNCHANGED << timeouts, timers, fetching, events, finishedCheckCount,
                            allFinished, terminal >>
  /\ UNCHANGED << pc, socket, handlerAttached, subscription, triggerSent, checksP, checks,
                  checkRunIds, verbose, numChecks, endCalls, outcome, msgCount >>

\* Line 128 resumes for the oldest suspended handler: with the resolved value it
\* runs lines 129-154; with a rejected this.checks the handler rejects.
Handle ==
  /\ checksP \in {"resolved", "rejected"}
  /\ waiting # << >>
  /\ waiting' = Tail(waiting)
  /\ IF checksP = "resolved"
       THEN /\ Process(Head(waiting))
            /\ UNCHANGED handlerErrors
       ELSE /\ handlerErrors' = handlerErrors + 1
            /\ UNCHANGED << timeouts, timers, fetching, events, finishedCheckCount,
                            allFinished, terminal >>
  /\ UNCHANGED << pc, socket, handlerAttached, subscription, triggerSent, checksP, checks,
                  checkRunIds, verbose, numChecks, endCalls, outcome, msgCount >>

\* An asset fetch resolves: line 143 goes on to line 145, line 146 to line 148.
FetchDone(h) ==
  /\ h \in fetching
  /\ ~MicrotaskPending
  /\ IF h.stage = "logs"
       THEN LET result == [h.result EXCEPT !.logs = TRUE]
            IN IF NeedData(result)
                 THEN /\ fetching' = (fetching \ {h})
                                       \cup {Fetch(h.runId, h.check, result, "data")}
                      /\ UNCHANGED << events, finishedCheckCount, allFinished >>
               ELSE /\ fetching' = fetching \ {h}
                    /\ Emit(Successful(h.check, h.runId, result))
     ELSE /\ fetching' = fetching \ {h}
          /\ Emit(Successful(h.check, h.runId, [h.result EXCEPT !.checkRunData = TRUE]))
  /\ UNCHANGED << pc, socket, handlerAttached, subscription, triggerSent, checksP, checks,
                  checkRunIds, verbose, timeouts, timers, numChecks, waiting, endCalls,
                  outcome, handlerErrors, terminal, msgCount >>

\* An asset fetch rejects: the handler rejects at line 143 or 146, after it has
\* disabled the timeout and before it has emitted anything.
FetchFail(h) ==
  /\ h \in fetching
  /\ ~MicrotaskPending
  /\ fetching' = fetching \ {h}
  /\ handlerErrors' = handlerErrors + 1
  /\ UNCHANGED << pc, socket, handlerAttached, subscription, triggerSent, checksP, checks,
                  checkRunIds, verbose, timeouts, timers, numChecks, finishedCheckCount,
                  allFinished, waiting, events, endCalls, outcome, terminal, msgCount >>

\* A faulty variant of TimeoutFires: the callback does not delete its entry.
TimeoutFiresKeepsEntry(timer) ==
  /\ timer \in timers
  /\ ~MicrotaskPending
  /\ timers' = timers \ {timer}
  /\ timeouts' = timeouts
  /\ terminal' = terminal \cup {timer.checkRunId}
  /\ Emit(<< Event("CHECK_FAILED", timer.check, timer.checkRunId, "Reached timeout"),
             Event("CHECK_FINISHED", timer.check, timer.checkRunId, "none") >>)
  /\ UNCHANGED << pc, socket, handlerAttached, subscription, triggerSent, checksP, checks,
                  checkRunIds, verbose, numChecks, waiting, fetching, endCalls, outcome,
                  handlerErrors, msgCount >>

\* A faulty variant of TimeoutFires: the callback fails the check only when no
\* CHECK_INPROGRESS was emitted for it.
TimeoutFiresOnlyArmed(timer) ==
  /\ timer \in timers
  /\ ~MicrotaskPending
  /\ timers' = timers \ {timer}
  /\ timeouts' = Remove(timeouts, timer.checkRunId)
  /\ terminal' = terminal \cup {timer.checkRunId}
  /\ IF \E i \in 1 .. Len(events) :
          events[i].type = "CHECK_INPROGRESS" /\ events[i].check = timer.check
       THEN UNCHANGED << events, finishedCheckCount, allFinished >>
       ELSE Emit(<< Event("CHECK_FAILED", timer.check, timer.checkRunId, "Reached timeout"),
                    Event("CHECK_FINISHED", timer.check, timer.checkRunId, "none") >>)
  /\ UNCHANGED << pc, socket, handlerAttached, subscription, triggerSent, checksP, checks,
                  checkRunIds, verbose, numChecks, waiting, fetching, endCalls, outcome,
                  handlerErrors, msgCount >>

\* The timer `timer` fires (lines 104-108).
TimeoutFires(timer) ==
  /\ timer \in timers
  /\ ~MicrotaskPending
  /\ timers' = timers \ {timer}
  /\ timeouts' = Remove(timeouts, timer.checkRunId)
  /\ terminal' = terminal \cup {timer.checkRunId}
  /\ Emit(<< Event("CHECK_FAILED", timer.check, timer.checkRunId, "Reached timeout"),
             Event("CHECK_FINISHED", timer.check, timer.checkRunId, "none") >>)
  /\ UNCHANGED << pc, socket, handlerAttached, subscription, triggerSent, checksP, checks,
                  checkRunIds, verbose, numChecks, waiting, fetching, endCalls, outcome,
                  handlerErrors, msgCount >>

----------------------------------------------------------------------------
Next ==
  \/ Connect
  \/ ConnectFail
  \/ SubscribeAck
  \/ SubscribeFail
  \/ ScheduleAllChecks
  \/ \E response \in Responses : TriggerResponse(response)
  \/ TriggerReject
  \/ RunFinished
  \/ EndOk
  \/ EndFail
  \/ \E m \in Msgs : Receive(m)
  \/ Handle
  \/ \E h \in fetching : FetchDone(h)
  \/ \E h \in fetching : FetchFail(h)
  \/ \E timer \in timers : TimeoutFires(timer)

Spec == Init /\ [][Next]_vars

\* Fairness of the event loop: queued continuations run, armed timers fire, and
\* every request that was sent (subscribe, trigger, asset fetch, disconnect) is
\* answered, with a result or with a failure.
FairSpec ==
  /\ Spec
  /\ WF_vars(Connect \/ ConnectFail)
  /\ WF_vars(SubscribeAck \/ SubscribeFail)
  /\ WF_vars(ScheduleAllChecks)
  /\ WF_vars((\E response \in Responses : TriggerResponse(response)) \/ TriggerReject)
  /\ WF_vars(Handle)
  /\ WF_vars(RunFinished)
  /\ WF_vars(\E timer \in timers : TimeoutFires(timer))
  /\ WF_vars(\E h \in fetching : FetchDone(h) \/ FetchFail(h))
  /\ WF_vars(EndOk \/ EndFail)

----------------------------------------------------------------------------
\* A second specification of the same actions, with one or two checks and the
\* full variety of payloads and topics: every combination of hasFailures, logPath
\* and checkRunDataPath in a run-end result, two different error payloads,
\* verbose on or off, a topic with too few segments, and an unknown run id.

PayloadErrors == {"failed to start", "runner crashed"}

\* topicComponents[5] of a topic with fewer than six segments (undefined).
UndefinedKind == "undefined"

\* The run ids of PayloadResponses.
PayloadRunIds == {11, 12}

PayloadMsgs ==
  [runId : PayloadRunIds, kind : {"run-start", "other"}, result : {NoResult},
   error : {NoError}]
    \cup [runId : PayloadRunIds, kind : {"run-end"}, result : Results, error : {NoError}]
    \cup [runId : PayloadRunIds, kind : {"error"}, result : {NoResult},
           error : PayloadErrors]
    \cup [runId : {UnknownRunId}, kind : {"run-end"}, result : {NoResult}, error : {NoError}]
    \cup [runId : {UndefinedRunId}, kind : {UndefinedKind}, result : {NoResult},
           error : {NoError}]

PayloadResponses ==
  {response \in Responses :
     /\ response.checks \in {<< 1 >>, << 1, 2 >>}
     /\ \A check \in DOMAIN response.checkRunIds : response.checkRunIds[check] = 10 + check}

PayloadInit == \E verboseArg \in BOOLEAN : Constructed(verboseArg)

PayloadNext ==
  \/ Connect
  \/ ConnectFail
  \/ SubscribeAck
  \/ SubscribeFail
  \/ ScheduleAllChecks
  \/ \E response \in PayloadResponses : TriggerResponse(response)
  \/ TriggerReject
  \/ RunFinished
  \/ EndOk
  \/ EndFail
  \/ \E m \in PayloadMsgs : Receive(m)
  \/ Handle
  \/ \E h \in fetching : FetchDone(h)
  \/ \E h \in fetching : FetchFail(h)
  \/ \E timer \in timers : TimeoutFires(timer)

PayloadSpec == PayloadInit /\ [][PayloadNext]_vars

----------------------------------------------------------------------------
\* Properties

Positions(type) == {i \in 1 .. Len(events) : events[i].type = type}
Emitted(type) == Positions(type) # {}
FinishedBefore(i, check) ==
  {j \in 1 .. i - 1 : events[j].type = "CHECK_FINISHED" /\ events[j].check = check}
CheckEvents == {"CHECK_INPROGRESS", "CHECK_SUCCESSFUL", "CHECK_FAILED", "CHECK_FINISHED"}
TimedOut(i) == events[i].type = "CHECK_FAILED" /\ events[i].arg = "Reached timeout"

\* C1: for an injective checkId -> runId mapping, RUN_FINISHED is emitted at most
\* once, and when it is emitted exactly one CHECK_FINISHED per check of the trigger
\* response, and no other CHECK_FINISHED, precedes it.
C1_RunFinishedOnceAfterAllChecks ==
  Injective(checkRunIds) =>
    /\ Cardinality(Positions("RUN_FINISHED")) <= 1
    /\ \A i \in Positions("RUN_FINISHED") :
         /\ \A check \in Range(checks) : Cardinality(FinishedBefore(i, check)) = 1
         /\ Cardinality({j \in 1 .. i - 1 : events[j].type = "CHECK_FINISHED"}) = Len(checks)

\* Two checks with distinct run ids: one got CHECK_SUCCESSFUL from a run-end
\* message, the other timed out, a second message was discarded, and
\* RUN_FINISHED was emitted.
C1_Witness ==
  /\ Len(checks) = 2
  /\ Injective(checkRunIds)
  /\ Emitted("RUN_FINISHED")
  /\ Cardinality(Positions("CHECK_SUCCESSFUL")) = 1
  /\ Cardinality({i \in 1 .. Len(events) : TimedOut(i)}) = 1
  /\ ~Emitted("CHECK_INPROGRESS")
  /\ msgCount = 2
  /\ waiting = << >>

C3_EventuallyRunFinished ==
  (checksP = "resolved") ~> (Emitted("RUN_FINISHED") /\ endCalls = 1)

\* C4: the trigger request is sent only with the message handler attached and the
\* subscription acknowledged.
C4_TriggerAfterSubscribeAck ==
  triggerSent => handlerAttached /\ subscription = "acked"

\* The trigger request has been sent and its response is awaited.
C4_Witness ==
  triggerSent /\ checksP = "pending" /\ subscription = "acked" /\ handlerAttached

\* C5: after a rejected trigger request the only event is ERROR, no timer is armed
\* and socketClient.end() has been called, also once the handlers that waited for
\* this.checks have resumed.
C5_TriggerRejectOnlyError ==
  checksP = "rejected" =>
    /\ Len(events) = 1
    /\ events[1].type = "ERROR"
    /\ timers = {}
    /\ DOMAIN timeouts = {}
    /\ endCalls = 1
    /\ pc \in {"ending", "done"}

\* The trigger request was rejected while two handlers waited for this.checks:
\* one of them has resumed and rejected, the other is about to.
C5_Witness ==
  /\ checksP = "rejected"
  /\ Len(waiting) = 1
  /\ handlerErrors = 1
  /\ Emitted("ERROR")

\* C6: in every outcome of run() the connection it opened has been closed by
\* exactly one socketClient.end() call.
C6_ClosedExactlyOnce ==
  /\ endCalls <= 1
  /\ (pc = "done" /\ socket # "none") => endCalls = 1

\* C7: a failing socketClient.end() is suppressed: run() returns normally, with the
\* RUN_FINISHED or ERROR it emitted before the cleanup.
C7_DisconnectFailureSuppressed ==
  socket = "endFailed" =>
    /\ outcome = "returned"
    /\ Emitted("RUN_FINISHED") \/ Emitted("ERROR")

\* C8: the handler of a message whose run id is terminal (a run-end or error message
\* was accepted for it, or its timer fired) emits nothing and changes nothing.
C8_TerminalRunIdIsNoOp ==
  [][ ( /\ checksP = "resolved"
        /\ waiting # << >>
        /\ Head(waiting).runId \in terminal
        /\ waiting' = Tail(waiting) )
      => UNCHANGED << events, timeouts, timers, fetching, finishedCheckCount, allFinished,
                      terminal, handlerErrors >> ]_vars

\* The handler of a run-start message resumes for a run id that is terminal: its
\* accepted run-end still awaits the asset fetch.
C8_Witness ==
  /\ checksP = "resolved"
  /\ waiting # << >>
  /\ Head(waiting).runId \in terminal
  /\ Head(waiting).kind = "run-start"
  /\ \E h \in fetching : h.runId = Head(waiting).runId

\* C9: a trigger response without checks resolves allChecksFinishedPromise at once:
\* RUN_STARTED with the empty list is followed by RUN_FINISHED before any other
\* task of the event loop, no timer is armed, and socketClient.end() is called.
C9_NoChecksFinishesAtOnce ==
  (checksP = "resolved" /\ checks = << >>) =>
    /\ timers = {}
    /\ events[1].type = "RUN_STARTED" /\ events[1].arg = << >>
    /\ pc = "awaitAll" => allFinished /\ Len(events) = 1
    /\ pc # "awaitAll" =>
         /\ Len(events) = 2
         /\ events[2].type = "RUN_FINISHED"
         /\ endCalls = 1

\* run() has returned after a trigger response without checks, and no message
\* has arrived at all.
C9_Witness ==
  /\ checksP = "resolved"
  /\ checks = << >>
  /\ msgCount = 0
  /\ Emitted("RUN_FINISHED")
  /\ pc = "done"
  /\ outcome = "returned"

\* C10: for an injective checkId -> runId mapping, every check event carries the
\* check whose run id is the run id of the message, or of the timer, that caused it.
C10_CorrelationExact ==
  Injective(checkRunIds) =>
    \A i \in 1 .. Len(events) :
      events[i].type \in CheckEvents =>
        /\ events[i].check \in DOMAIN checkRunIds
        /\ checkRunIds[events[i].check] = events[i].runId

\* With the mapping {1: 11, 2: 12}, a run-start message on run id 12 was attributed
\* to check 2, and the timer of check 1 has fired.
C10_Witness ==
  /\ DOMAIN checkRunIds = {1, 2}
  /\ checkRunIds[1] = 11
  /\ checkRunIds[2] = 12
  /\ \E i \in Positions("CHECK_INPROGRESS") : events[i].runId = 12 /\ events[i].check = 2
  /\ \E i \in 1 .. Len(events) : TimedOut(i) /\ events[i].check = 1

\* The step is the callback of `timer` (a cleared timer leaves `timers` in a step
\* of the message handler, which takes the handler off `waiting`).
Fires(timer) == timer \in timers /\ timer \notin timers' /\ waiting' = waiting

\* The step appends exactly the events first(check) and CHECK_FINISHED(check).
AppendsPair(type, check) ==
  /\ Len(events') = Len(events) + 2
  /\ SubSeq(events', 1, Len(events)) = events
  /\ events'[Len(events) + 1].type = type
  /\ events'[Len(events) + 1].check = check
  /\ events'[Len(events) + 2].type = "CHECK_FINISHED"
  /\ events'[Len(events) + 2].check = check

\* The type and the check of every event, in order.
Trace == [i \in 1 .. Len(events) |-> << events[i].type, events[i].check >>]

\* C11: a timer that fires emits CHECK_FAILED with 'Reached timeout' and then
\* CHECK_FINISHED for its check, whether or not CHECK_INPROGRESS was emitted for
\* the check; a run-start message leaves the timer armed.  With checks 1 and 2,
\* a run-start and a passing run-end message for check 1 and nothing for check 2,
\* the events after RUN_STARTED are CHECK_INPROGRESS(1), CHECK_SUCCESSFUL(1),
\* CHECK_FINISHED(1), CHECK_FAILED(2), CHECK_FINISHED(2), RUN_FINISHED.
C11_TimeoutFailsCheckInAnyPhase ==
  /\ [][\A timer \in timers :
          Fires(timer) =>
            /\ AppendsPair("CHECK_FAILED", timer.check)
            /\ events'[Len(events) + 1].arg = "Reached timeout"]_vars
  /\ [][(checksP = "resolved" /\ waiting # << >> /\ waiting' = Tail(waiting)
           /\ Head(waiting).kind = "run-start")
          => (timers' = timers /\ timeouts' = timeouts)]_vars
  /\ []((/\ pc = "done"
          /\ checks = << 1, 2 >>
          /\ msgCount = 2
          /\ Len(events) >= 3
          /\ Trace[2] = << "CHECK_INPROGRESS", 1 >>
          /\ Trace[3] = << "CHECK_SUCCESSFUL", 1 >>)
         => /\ Trace = << << "RUN_STARTED", NoCheck >>, << "CHECK_INPROGRESS", 1 >>,
                          << "CHECK_SUCCESSFUL", 1 >>, << "CHECK_FINISHED", 1 >>,
                          << "CHECK_FAILED", 2 >>, << "CHECK_FINISHED", 2 >>,
                          << "RUN_FINISHED", NoCheck >> >>
            /\ TimedOut(5))

\* The run of the scenario has ended: check 1 went through run-start and a passing
\* run-end, the timer of check 2 fired afterwards, and RUN_FINISHED was emitted.
C11_Witness ==
  /\ pc = "done"
  /\ checks = << 1, 2 >>
  /\ Len(events) = 7
  /\ Trace[2] = << "CHECK_INPROGRESS", 1 >>
  /\ Trace[3] = << "CHECK_SUCCESSFUL", 1 >>
  /\ TimedOut(5)
  /\ events[5].check = 2
  /\ Trace[7] = << "RUN_FINISHED", NoCheck >>

\* A timer fired for a check that was in progress: CHECK_INPROGRESS and then the
\* timeout failure for the same check.
C11_WitnessInProgress ==
  \E i, j \in 1 .. Len(events) :
    /\ i < j
    /\ events[i].type = "CHECK_INPROGRESS"
    /\ TimedOut(j)
    /\ events[j].check = events[i].check

\* C12: RUN_STARTED is emitted exactly once when the trigger request succeeded (and
\* not otherwise), as the first event of the session and so before every CHECK_*
\* event, also when messages were waiting for the trigger response; it carries
\* the list of checks of the response, and when it is emitted every run id of the
\* response has a live timer in the timer table.
C12_RunStartedOnceFirst ==
  /\ [](Cardinality(Positions("RUN_STARTED")) = IF checksP = "resolved" THEN 1 ELSE 0)
  /\ [](checksP = "resolved" => (events[1].type = "RUN_STARTED" /\ events[1].arg = checks))
  /\ [](\A i \in 1 .. Len(events) :
          events[i].type \in CheckEvents => (i > 1 /\ events[1].type = "RUN_STARTED"))
  /\ [][(~Emitted("RUN_STARTED") /\ Emitted("RUN_STARTED")')
          => /\ DOMAIN timeouts' = Range(checkRunIds')
             /\ \A r \in DOMAIN timeouts' : timeouts'[r] \in timers'
             /\ \A check \in Range(checks') : Timer(check, checkRunIds'[check]) \in timers'
             /\ \A i \in 1 .. Len(events') : events'[i].type \notin CheckEvents]_vars

\* Two messages arrived before the trigger response; the response was processed:
\* RUN_STARTED with both checks is the only event, both timers are armed, and
\* the two handlers are about to resume.
C12_Witness ==
  /\ checksP = "resolved"
  /\ Len(waiting) = 2
  /\ Len(events) = 1
  /\ events[1].type = "RUN_STARTED"
  /\ events[1].arg = << 1, 2 >>
  /\ Cardinality(timers) = 2

\* C13: while the trigger response is outstanding every message that arrived is
\* suspended, in arrival order, and nothing was emitted or dropped; suspended
\* handlers resume oldest first; and a resumed run-end handler whose run id is in
\* the timer table (also one that arrived before the response) disarms the timer
\* of that run id and, unless it has to fetch assets first, emits CHECK_SUCCESSFUL
\* and CHECK_FINISHED for the check the trigger response gave that run id.
C13_EarlyMessagesSuspendInOrder ==
  /\ [](checksP = "pending" => (Len(waiting) = msgCount /\ events = << >>))
  /\ [][waiting' # waiting =>
          \/ waiting # << >> /\ waiting' = Tail(waiting)
          \/ Len(waiting') = Len(waiting) + 1 /\ SubSeq(waiting', 1, Len(waiting)) = waiting]_vars
  /\ [][(/\ checksP = "resolved"
          /\ waiting # << >>
          /\ waiting' = Tail(waiting)
          /\ Head(waiting).kind = "run-end"
          /\ Head(waiting).runId \in DOMAIN timeouts)
          => LET m == Head(waiting)
                 check == CHOOSE c \in DOMAIN checkRunIds :
                            /\ checkRunIds[c] = m.runId
                            /\ \A d \in DOMAIN checkRunIds : checkRunIds[d] = m.runId => d <= c
             IN /\ m.runId \notin DOMAIN timeouts'
                /\ IF NeedLogs(m.result) \/ NeedData(m.result)
                     THEN \E h \in fetching' \ fetching : h.check = check /\ h.runId = m.runId
                     ELSE /\ AppendsPair("CHECK_SUCCESSFUL", check)
                          /\ events'[Len(events) + 1].arg = m.result]_vars

\* Two messages arrived before the trigger response, a run-end on run id 11 first;
\* the response, which gives run id 11 to check 1, has been processed and the
\* handlers are about to resume.
C13_Witness ==
  /\ checksP = "resolved"
  /\ Len(waiting) = 2
  /\ Head(waiting).kind = "run-end"
  /\ Head(waiting).runId = 11
  /\ DOMAIN checkRunIds = {1, 2}
  /\ checkRunIds[1] = 11
  /\ checkRunIds[2] = 12
  /\ 11 \in DOMAIN timeouts

\* The early run-end of C13_Witness was handled first: CHECK_SUCCESSFUL and
\* CHECK_FINISHED for check 1 follow RUN_STARTED while the second early message
\* is still suspended.
C13_WitnessHandled ==
  /\ checksP = "resolved"
  /\ Len(waiting) = 1
  /\ msgCount = 2
  /\ Trace = << << "RUN_STARTED", NoCheck >>, << "CHECK_SUCCESSFUL", 1 >>,
                << "CHECK_FINISHED", 1 >> >>
  /\ events[2].runId = 11

\* C14: the result that CHECK_SUCCESSFUL carries has the logs attached exactly when
\* it has a logPath and (verbose or hasFailures), and the check-run data exactly
\* when it has a checkRunDataPath and (verbose or hasFailures), so every fetch has
\* completed when the event is emitted; a pending fetch is one that this rule
\* demands; and a handler starts fetching only for a run-end message whose run
\* id is in the timer table, never for a run-start or error message.
C14_AssetsFetchedIffNeeded ==
  /\ [](\A i \in Positions("CHECK_SUCCESSFUL") :
          LET result == events[i].arg
          IN /\ result.logs = (result.logPath /\ (verbose \/ result.hasFailures))
             /\ result.checkRunData =
                  (result.checkRunDataPath /\ (verbose \/ result.hasFailures)))
  /\ [](\A h \in fetching :
          /\ verbose \/ h.result.hasFailures
          /\ ~h.result.checkRunData
          /\ h.stage = "logs" => (h.result.logPath /\ ~h.result.logs)
          /\ h.stage = "data" => (h.result.checkRunDataPath
                                    /\ h.result.logs = h.result.logPath))
  /\ [][\A h \in fetching' \ fetching :
          ~h.result.logs =>
            /\ waiting # << >>
            /\ waiting' = Tail(waiting)
            /\ Head(waiting).kind = "run-end"
            /\ Head(waiting).runId = h.runId
            /\ h.runId \in DOMAIN timeouts]_vars

\* Verbose is off; a run-end result with hasFailures and a logPath got its logs
\* attached before CHECK_SUCCESSFUL was emitted with it.
C14_Witness ==
  /\ ~verbose
  /\ \E i \in Positions("CHECK_SUCCESSFUL") :
       /\ events[i].arg.hasFailures
       /\ events[i].arg.logPath
       /\ events[i].arg.logs

\* Verbose is off; a passing result with both asset paths was emitted without a
\* fetch.
C14_WitnessNoFetch ==
  /\ ~verbose
  /\ \E i \in Positions("CHECK_SUCCESSFUL") :
       /\ ~events[i].arg.hasFailures
       /\ events[i].arg.logPath
       /\ events[i].arg.checkRunDataPath
       /\ ~events[i].arg.logs
       /\ ~events[i].arg.checkRunData

\* CHECK_FAILED is emitted only by a fired timer ('Reached timeout') or with the
\* payload of an error message, and never for a check whose run-end message was
\* accepted (its handler is fetching assets or has emitted CHECK_SUCCESSFUL).
FailedOnlyForErrorOrTimeout ==
  /\ \A i \in Positions("CHECK_FAILED") :
       TimedOut(i) \/ events[i].arg \in ErrorPayloads \cup PayloadErrors
  /\ \A j \in Positions("CHECK_FAILED") :
       /\ \A i \in Positions("CHECK_SUCCESSFUL") : events[i].check # events[j].check
       /\ \A h \in fetching : h.check # events[j].check

\* C15: an accepted run-end message leads to CHECK_SUCCESSFUL for its check: when
\* a run id is terminal, no CHECK_FAILED was emitted for it (so a run-end message
\* was accepted for it) and its handler is not waiting for an asset fetch, then
\* CHECK_SUCCESSFUL was emitted for it; and CHECK_FAILED is emitted only for an
\* error message or a timeout.
C15_RunEndLeadsToSuccessful ==
  /\ FailedOnlyForErrorOrTimeout
  /\ \A r \in terminal :
       (/\ \A i \in Positions("CHECK_FAILED") : events[i].runId # r
        /\ \A h \in fetching : h.runId # r)
       => \E i \in Positions("CHECK_SUCCESSFUL") : events[i].runId = r

\* CHECK_FAILED number i carries the payload of an error message.
FailedByMessage(i) == events[i].type = "CHECK_FAILED" /\ ~TimedOut(i)

\* C16: the handler of an error message whose run id is in the timer table clears
\* the timer of that run id, removes the entry, and emits CHECK_FAILED with the
\* payload of the message and then CHECK_FINISHED for the check the trigger
\* response gave that run id; ERROR is emitted only for a rejected
\* trigger request; and once every check of a run with such a failure has its
\* CHECK_FINISHED, allChecksFinishedPromise is resolved and RUN_FINISHED is the
\* next thing run() does, or was emitted already.
C16_ErrorMessageFailsCheckOnly ==
  /\ [][(/\ checksP = "resolved"
          /\ waiting # << >>
          /\ waiting' = Tail(waiting)
          /\ Head(waiting).kind = "error"
          /\ Head(waiting).runId \in DOMAIN timeouts)
          => LET m == Head(waiting)
                 check == CHOOSE c \in DOMAIN checkRunIds :
                            /\ checkRunIds[c] = m.runId
                            /\ \A d \in DOMAIN checkRunIds : checkRunIds[d] = m.runId => d <= c
             IN /\ timeouts[m.runId] \notin timers'
                /\ m.runId \notin DOMAIN timeouts'
                /\ AppendsPair("CHECK_FAILED", check)
                /\ events'[Len(events) + 1].arg = m.error]_vars
  /\ [](Emitted("ERROR") => (checksP = "rejected" /\ ~Emitted("CHECK_FAILED")))
  /\ []((/\ \E i \in 1 .. Len(events) : FailedByMessage(i)
          /\ \A check \in Range(checks) :
               \E j \in Positions("CHECK_FINISHED") : events[j].check = check)
         => /\ allFinished
            /\ pc \in {"awaitAll", "ending", "done"}
            /\ pc # "awaitAll" => Emitted("RUN_FINISHED"))

\* Checks 1 and 2: check 1 failed with the payload of an error message, check 2
\* finished afterwards, RUN_FINISHED was emitted and ERROR was not.
C16_Witness ==
  /\ checks = << 1, 2 >>
  /\ Len(events) = 6
  /\ Trace[2] = << "CHECK_FAILED", 1 >>
  /\ events[2].arg = "runner crashed"
  /\ Trace[3] = << "CHECK_FINISHED", 1 >>
  /\ Trace[5] = << "CHECK_FINISHED", 2 >>
  /\ Trace[6] = << "RUN_FINISHED", NoCheck >>
  /\ ~Emitted("ERROR")
  /\ timers = {}

Outcomes == {"CHECK_SUCCESSFUL", "CHECK_FAILED"}

InProgressOf(runId) == {i \in Positions("CHECK_INPROGRESS") : events[i].runId = runId}

\* C18: CHECK_INPROGRESS is emitted at most once per check run.
C18_InProgressAtMostOnce ==
  \A runId \in RunIds : Cardinality(InProgressOf(runId)) <= 1

\* C18, amended: the handler of a run-start message emits exactly one
\* CHECK_INPROGRESS when the run id is in the timer table, also when one was
\* emitted for that check run before, and nothing when it is not; so no
\* CHECK_INPROGRESS of a check run follows an outcome event of that check run.
C18_InProgressPerRunStart ==
  /\ [][(/\ checksP = "resolved"
          /\ waiting # << >>
          /\ waiting' = Tail(waiting)
          /\ Head(waiting).kind = "run-start")
          => IF Head(waiting).runId \in DOMAIN timeouts
               THEN /\ Len(events') = Len(events) + 1
                    /\ SubSeq(events', 1, Len(events)) = events
                    /\ events'[Len(events')].type = "CHECK_INPROGRESS"
                    /\ events'[Len(events')].runId = Head(waiting).runId
                    /\ events'[Len(events')].check = timeouts[Head(waiting).runId].check
               ELSE events' = events]_vars
  /\ [](\A i \in Positions("CHECK_INPROGRESS") : \A j \in 1 .. Len(events) :
          (events[j].type \in Outcomes /\ events[j].runId = events[i].runId) => i < j)

\* Two run-start messages for the same check run: CHECK_INPROGRESS was emitted
\* twice for it.
C18_Witness ==
  \E runId \in RunIds :
    /\ Cardinality(InProgressOf(runId)) = 2
    /\ runId \in DOMAIN timeouts

\* No timer fires for a run id that is terminal (through an accepted run-end or
\* error message, also while the asset fetch is pending, or through a fired timer).
NoFireAfterTerminal ==
  \A timer \in timers : Fires(timer) => timer.checkRunId \notin terminal

\* The handler of a message for a terminal run id clears no timer and leaves the
\* timer table alone.
NoDisarmAfterTerminal ==
  (/\ checksP = "resolved"
   /\ waiting # << >>
   /\ waiting' = Tail(waiting)
   /\ Head(waiting).runId \in terminal)
  => (timers' = timers /\ timeouts' = timeouts)

\* A timer that has left `timers` does not come back, the timer table only loses
\* entries once it is armed, and deleting a run id that is not in the table gives
\* the same table.
RetiredForGood ==
  /\ \A timer \in timers' : timer \in timers \/ timers = {}
  /\ timeouts # << >> => DOMAIN timeouts' \subseteq DOMAIN timeouts
  /\ \A runId \in (RunIds \cup {UnknownRunId, UndefinedRunId}) \ DOMAIN timeouts :
       Remove(timeouts, runId) = timeouts

\* C19: the timer of a check run is retired once: after an accepted run-end or
\* error message for a run id no timer of that run id fires, after the timer has
\* fired no message disarms anything for that run id, and disarming a run id
\* that is not in the table leaves the table unchanged.
C19_TimerRetiredOnce ==
  [][NoFireAfterTerminal /\ NoDisarmAfterTerminal /\ RetiredForGood]_vars

\* C19, amended: the same, for a trigger response whose checkId -> runId mapping
\* is injective.
C19_TimerRetiredOnceInjective ==
  [][Injective(checkRunIds) =>
       (NoFireAfterTerminal /\ NoDisarmAfterTerminal /\ RetiredForGood)]_vars

\* Two checks with distinct run ids: the run-end message of one was accepted and
\* its handler is still fetching assets, the timer of that check is gone and did
\* not fire, and the timer of the other check has fired.
C19_Witness ==
  /\ Len(checks) = 2
  /\ Injective(checkRunIds)
  /\ timers = {}
  /\ \E h \in fetching :
       /\ h.runId \notin DOMAIN timeouts
       /\ \A i \in Positions("CHECK_FAILED") : events[i].runId # h.runId
       /\ \E i \in 1 .. Len(events) : TimedOut(i) /\ events[i].runId # h.runId

\* The message is one the session has no use for: its topic gave no run id, or a
\* run id the trigger response did not return, or a subtopic that is none of
\* run-start, run-end and error.
Noise(m) ==
  \/ m.runId \notin Range(checkRunIds)
  \/ m.kind \notin {"run-start", "run-end", "error"}

\* The step is the handler of a noise message, and it emits nothing, leaves the
\* timers and the timer table alone, and does not fail.
NoiseIsNoOp ==
  (waiting # << >> /\ waiting' = Tail(waiting) /\ Noise(Head(waiting)))
  => /\ events' = events
     /\ timeouts' = timeouts
     /\ timers' = timers
     /\ handlerErrors' = handlerErrors

\* C20: in every state of the run, also after a failed trigger request, the
\* handler of a message with a malformed topic, an unknown run id or an unknown
\* kind emits no event, leaves the timer table unchanged, and does not fail.
C20_NoiseIsNoOpAlways == [][NoiseIsNoOp]_vars

\* The same once the trigger request has succeeded.
NoiseIsNoOpAfterResponse == [][checksP = "resolved" => NoiseIsNoOp]_vars

\* The step is a terminal outcome of `check`: its timer fires, or the handler of
\* a run-end or error message resumes for the run id whose table entry is the
\* timer of `check`.
TerminalStepOf(check) ==
  \/ \E timer \in timers : Fires(timer) /\ timer.check = check
  \/ /\ checksP = "resolved"
     /\ waiting # << >>
     /\ waiting' = Tail(waiting)
     /\ Head(waiting).kind \in {"run-end", "error"}
     /\ Head(waiting).runId \in DOMAIN timeouts
     /\ timeouts[Head(waiting).runId].check = check

\* The step leaves the table entry and the timer of every check but `check` as
\* they were, and every event it emits is an event of `check`.
OthersUntouched(check) ==
  /\ \A other \in Range(checks) \ {check} :
       LET runId == checkRunIds[other]
       IN /\ (runId \in DOMAIN timeouts') = (runId \in DOMAIN timeouts)
          /\ runId \in DOMAIN timeouts => timeouts'[runId] = timeouts[runId]
          /\ (Timer(other, runId) \in timers') = (Timer(other, runId) \in timers)
  /\ Len(events') >= Len(events)
  /\ \A i \in Len(events) + 1 .. Len(events') : events'[i].check = check

\* A check whose run id is not terminal is armed: its run id is in the timer
\* table with its own live timer, so a run-start, run-end or error message for
\* it is accepted and its timer can fire.
OthersStillArmed ==
  \A other \in Range(checks) :
    checkRunIds[other] \notin terminal =>
      /\ checkRunIds[other] \in DOMAIN timeouts
      /\ timeouts[checkRunIds[other]] = Timer(other, checkRunIds[other])
      /\ Timer(other, checkRunIds[other]) \in timers

\* C21: a terminal outcome of one check (its timer fires, or its run-end or error
\* message is accepted) leaves the timer-table entry and the timer of every other
\* check unchanged and emits events of that check only, and the other checks
\* stay armed for their own messages and timeout.
C21_TerminalOutcomeFrame ==
  [][\A check \in Range(checks) :
       TerminalStepOf(check) => (OthersUntouched(check) /\ OthersStillArmed')]_vars

\* C21, amended: the same, for a trigger response whose checkId -> runId mapping
\* is injective.
C21_TerminalOutcomeFrameInjective ==
  [][Injective(checkRunIds) =>
       \A check \in Range(checks) :
         TerminalStepOf(check) => (OthersUntouched(check) /\ OthersStillArmed')]_vars

\* Checks 1 and 2 with distinct run ids: the timer of check 1 fired, and after
\* that check 2 got CHECK_INPROGRESS and CHECK_SUCCESSFUL from its own messages.
C21_Witness ==
  /\ Injective(checkRunIds)
  /\ Len(events) >= 6
  /\ TimedOut(2)
  /\ Trace[2] = << "CHECK_FAILED", 1 >>
  /\ Trace[3] = << "CHECK_FINISHED", 1 >>
  /\ Trace[4] = << "CHECK_INPROGRESS", 2 >>
  /\ Trace[5] = << "CHECK_SUCCESSFUL", 2 >>
  /\ Trace[6] = << "CHECK_FINISHED", 2 >>

\* C22: for an injective checkId -> runId mapping, once RUN_FINISHED is emitted
\* the timer table is empty, no timer is live and no asset fetch is pending;
\* RUN_FINISHED stays the last event whatever messages arrive or are still
\* suspended; and no run emits both RUN_FINISHED and ERROR.
C22_NothingAfterRunFinished ==
  /\ (Injective(checkRunIds) /\ Emitted("RUN_FINISHED")) =>
       /\ timeouts = << >>
       /\ timers = {}
       /\ fetching = {}
       /\ events[Len(events)].type = "RUN_FINISHED"
  /\ ~(Emitted("RUN_FINISHED") /\ Emitted("ERROR"))

\* Two checks with distinct run ids have finished and RUN_FINISHED was emitted;
\* a message for one of them arrived afterwards, while socketClient.end() was in
\* progress, and its handler is about to resume.
C22_Witness ==
  /\ Injective(checkRunIds)
  /\ Len(checks) = 2
  /\ Emitted("RUN_FINISHED")
  /\ waiting # << >>
  /\ Head(waiting).runId \in Range(checkRunIds)
  /\ Head(waiting).kind = "run-end"

====
